---- MODULE Spec2Model ----
(***************************************************************************)
(* State-machine model of the image gallery component src/src/App.tsx:     *)
(* the React state of App, the two localStorage slots it uses, the mount   *)
(* effects, the asynchronous upload routine handleFileUpload (suspended at *)
(* each file read), deleteImage and the derived list filteredImages.       *)
(***************************************************************************)
EXTENDS Integers, Sequences, FiniteSets, TLC

(***************************************************************************)
(* Bounds of the model.                                                    *)
(***************************************************************************)
\* longest collection (committed records plus records still to be committed)
MaxImages == 3
\* most files in one picker selection or drop
MaxFiles == 2
\* most batches in flight at once
MaxBatches == 2
\* last value of the millisecond clock Date.now()
MaxClock == 0

(***************************************************************************)
(* Text.  A string is a sequence of one-character strings.                 *)
(***************************************************************************)
\* String.prototype.toLowerCase on one character of the model's alphabet
LowerChar(c) ==
  CASE c = "A" -> "a"
    [] c = "B" -> "b"
    [] OTHER -> c

\* String.prototype.toLowerCase
ToLowerCase(s) == [i \in 1..Len(s) |-> LowerChar(s[i])]

\* String.prototype.includes: needle occurs in hay as a contiguous substring
Includes(hay, needle) ==
  \E off \in 0..(Len(hay) - Len(needle)) :
     SubSeq(hay, off + 1, off + Len(needle)) = needle

\* the regular expression /\.[^/.]+$/ : the start of its match in s, 0 if none.
\* The match starts at a "." and runs to the end of s over one or more
\* characters that are neither "/" nor ".".
ExtMatchStart(s) ==
  LET starts == { i \in 1..Len(s) :
                    /\ s[i] = "."
                    /\ i < Len(s)
                    /\ \A j \in (i + 1)..Len(s) : s[j] # "/" /\ s[j] # "." }
  IN IF starts = {} THEN 0
     ELSE CHOOSE i \in starts : \A k \in starts : i <= k

\* file.name.replace(/\.[^/.]+$/, "")
StripExtension(s) ==
  IF ExtMatchStart(s) = 0 THEN s ELSE SubSeq(s, 1, ExtMatchStart(s) - 1)

(***************************************************************************)
(* Files the user can pick or drop: File.name, File.type, File.size and    *)
(* the bytes a successful read yields.                                     *)
(***************************************************************************)
Files ==
  { [name |-> <<"A", "b", ".", "p">>,      type |-> "image/png",  size |-> 2048, content |-> "c1"],
    [name |-> <<"a", ".", "b", ".", "g">>, type |-> "image/gif",  size |-> 0,    content |-> "c2"],
    [name |-> <<"b", ".">>,                type |-> "text/plain", size |-> 7,    content |-> "c3"] }

\* file.type.startsWith('image/')
StartsWithImage(type) == type \in {"image/png", "image/gif"}

\* a FileList of the picker or of a drop: up to MaxFiles files, possibly none
FileLists == UNION { [1..n -> Files] : n \in 0..MaxFiles }

\* the outcomes of Math.random().toString(36).substr(2, 9)
RandomSuffixes == {"r1", "r2"}

\* the search terms the user types
SearchTerms == { <<>>, <<"a", "B">> }

(***************************************************************************)
(* Records and their serialization.                                        *)
(***************************************************************************)
\* fileToBase64: the data URL of a file whose read succeeded
FileToBase64(file) == <<"data:", file.type, ";base64,", file.content>>

\* the ImageData literal of handleFileUpload, built at millisecond t with
\* random suffix r
MakeImageData(file, t, r) ==
  [ id         |-> <<t, r>>,
    name       |-> StripExtension(file.name),
    src        |-> FileToBase64(file),
    size       |-> file.size,
    uploadDate |-> <<"iso", t>> ]

\* A text of a storage slot is [tag, items]: "unset" (getItem gives null),
\* "empty" (the empty string), "garbage" (not JSON), "null", "num", "obj"
\* (JSON of null, of a number, of an object) and "arr" (JSON of an array whose
\* elements are the tuples of items, one per record, fields in key order).
SlotText(tag) == [tag |-> tag, items |-> <<>>]

\* JSON.stringify of one record: its values in property order
StringifyImage(img) == <<img.id, img.name, img.src, img.size, img.uploadDate>>

\* JSON.stringify(images)
JSONstringify(imgs) ==
  [tag |-> "arr", items |-> [i \in 1..Len(imgs) |-> StringifyImage(imgs[i])]]

\* JSON.parse of one serialized record
ParseImage(tup) ==
  [ id |-> tup[1], name |-> tup[2], src |-> tup[3], size |-> tup[4],
    uploadDate |-> tup[5] ]

\* JSON.parse(text): [ok |-> FALSE] when it throws, else the value's tag and,
\* for an array, its elements
JSONparse(text) ==
  IF text.tag \in {"garbage", "empty", "unset"}
  THEN [ok |-> FALSE, tag |-> "none", items |-> <<>>]
  ELSE [ok |-> TRUE, tag |-> text.tag,
        items |-> [i \in 1..Len(text.items) |-> ParseImage(text.items[i])]]

\* what localStorage holds under 'gallery-images' when the page is first opened
InitialSlotTexts ==
  { SlotText("unset"), SlotText("empty"), SlotText("garbage"), SlotText("null"),
    SlotText("num"), SlotText("obj"), SlotText("arr") }

\* showDeleteConfirm = null
NoId == <<-1, "">>

\* localStorage.getItem('theme') when the slot was never written: null
NoTheme == "(null)"

\* what localStorage holds under 'theme' when the page is first opened
InitialThemes == { NoTheme, "dark", "light" }

(***************************************************************************)
(* State.                                                                  *)
(***************************************************************************)
VARIABLES
  images,            \* useState images, when it is an array
  imagesTag,         \* the kind of value the images state holds ("arr", "null", "num", "obj")
  searchTerm,        \* useState searchTerm
  uploading,         \* useState uploading
  showDeleteConfirm, \* useState showDeleteConfirm (NoId for null)
  filteredImages,    \* the list the last render derived
  inputValue,        \* the FileList the file input holds
  batches,           \* the suspended handleFileUpload calls, in submission order
  imageSlot,         \* localStorage slot 'gallery-images'
  now,               \* Date.now()
  pc,                \* "mount", "hydrating", "ready" or "crashed"
  pending,           \* the value setImages was given by the hydrate effect
  isDarkMode,        \* useState isDarkMode
  rootDark,          \* document.documentElement has the class 'dark'
  themeSlot,         \* localStorage slot 'theme'
  pendingDark,       \* the hydrate effect has called setIsDarkMode(true)
  ev                 \* the last event handled

vars == << images, imagesTag, searchTerm, uploading, showDeleteConfirm,
           filteredImages, inputValue, batches, imageSlot, now, pc, pending,
           isDarkMode, rootDark, themeSlot, pendingDark, ev >>

themeVars == << isDarkMode, rootDark, themeSlot, pendingDark >>

\* The record of the last event: the operation; for an upload event the files
\* of the batch, the name of the suspended call and the number of its records
\* built so far; for a delete the id given and the length of the collection
\* before it; during a mount how the session began ("open", "restart" from a
\* running session, "reopen" after a crash), the tag of the slot's text at
\* that moment, and the collection and the theme the session before held when
\* it ended; for a commit the records that calls submitted after the
\* committing one have put into the collection while it was suspended, and
\* whether the step before the commit was a deleteImage.
Event(op, files, slot, n, id, boot, from, prev) ==
  [ op |-> op, files |-> files, slot |-> slot, n |-> n, id |-> id,
    boot |-> boot, from |-> from, prev |-> prev, dark |-> FALSE,
    younger |-> {}, afterDelete |-> FALSE ]

UploadEvent(op, files, slot, n) == Event(op, files, slot, n, NoId, "", "", <<>>)

UserEvent(op, id, n) == Event(op, <<>>, 0, n, id, "", "", <<>>)

MountEvent(op) ==
  [Event(op, <<>>, 0, 0, NoId, ev.boot, ev.from, ev.prev) EXCEPT !.dark = ev.dark]

\* no value is queued for setImages
NoPending == [ok |-> FALSE, tag |-> "none", items |-> <<>>]

\* a filter that lower-cases neither the name nor the term
FilterImagesCaseSensitive(imgs, term) ==
  SelectSeq(imgs, LAMBDA image : Includes(image.name, term))

\* filteredImages: images.filter(image =>
\*   image.name.toLowerCase().includes(searchTerm.toLowerCase()))
FilterImages(imgs, term) ==
  SelectSeq(imgs, LAMBDA image : Includes(ToLowerCase(image.name), ToLowerCase(term)))

\* a persist effect that does not run again: the slot keeps what it holds
PersistEffectStale(imgs) == imageSlot

\* the persist effect: localStorage.setItem('gallery-images', JSON.stringify(images))
PersistEffect(imgs) == JSONstringify(imgs)

\* the first render of a mount: every useState at its initial value
FirstRender ==
  /\ images = <<>>
  /\ imagesTag = "arr"
  /\ searchTerm = <<>>
  /\ uploading = FALSE
  /\ showDeleteConfirm = NoId
  /\ filteredImages = FilterImages(<<>>, <<>>)
  /\ inputValue = <<>>
  /\ batches = <<>>
  /\ pending = NoPending
  /\ isDarkMode = FALSE
  /\ pendingDark = FALSE
  /\ pc = "mount"

Init ==
  /\ FirstRender
  /\ rootDark = FALSE
  /\ imageSlot \in InitialSlotTexts
  /\ themeSlot \in InitialThemes
  /\ now = 0
  /\ ev = Event("open", <<>>, 0, 0, NoId, imageSlot.tag, "open", <<>>)

(***************************************************************************)
(* Helpers of the upload routine.                                          *)
(***************************************************************************)
\* the files of a FileList that pass the test of line 68
ImageCount(files) ==
  Cardinality({ k \in 1..Len(files) : StartsWithImage(files[k].type) })

\* a loop that ends after the first file it reads
NextImageIndexFirstOnly(files, from) ==
  LET later == { k \in (from + 1)..Len(files) : StartsWithImage(files[k].type) }
  IN IF later = {} \/ from # 0 THEN 0 ELSE CHOOSE k \in later : \A m \in later : k <= m

\* the for loop of handleFileUpload: the index of the next file after `from`
\* that is read (the others are skipped without suspending), 0 at the end
NextImageIndex(files, from) ==
  LET later == { k \in (from + 1)..Len(files) : StartsWithImage(files[k].type) }
  IN IF later = {} THEN 0 ELSE CHOOSE k \in later : \A m \in later : k <= m

\* the records the suspended calls will still append when they commit
RECURSIVE InFlightImages(_)
InFlightImages(bs) ==
  IF bs = <<>> THEN 0 ELSE ImageCount(Head(bs).files) + InFlightImages(Tail(bs))

RemoveAt(seq, i) == SubSeq(seq, 1, i - 1) \o SubSeq(seq, i + 1, Len(seq))

\* a name for a new suspended call: the lowest one no suspended call has
FreeSlot ==
  CHOOSE s \in 1..MaxBatches :
    /\ \A i \in 1..Len(batches) : batches[i].slot # s
    /\ \A u \in 1..(s - 1) : \E i \in 1..Len(batches) : batches[i].slot = u

\* an update that puts the new records first
CommitImagesPrepend(prev, newImages) == newImages \o prev

\* an update that appends to the list on display, not to the collection
CommitImagesFromShown(prev, newImages) == filteredImages \o newImages

\* an update that replaces the collection by the new records
CommitImagesReplace(prev, newImages) == newImages

\* setImages(prev => [...prev, ...newImages])
CommitImages(prev, newImages) == prev \o newImages

\* a catch block that keeps the records read before the failure
CatchImagesKeepsRead(prev, newImages) == prev \o newImages

\* the catch block: the collection is not touched
CatchImages(prev, newImages) == prev

\* a filter with its test inverted
FilterKeepId(prev, imageId) == SelectSeq(prev, LAMBDA img : img.id = imageId)

\* setImages(prev => prev.filter(img => img.id !== imageId))
FilterOutId(prev, imageId) == SelectSeq(prev, LAMBDA img : img.id # imageId)

\* finally: setUploading(false)
FinallyUploading == FALSE

\* a finally block that leaves the file input as it is
FinallyInputValueKept == inputValue

\* finally: fileInputRef.current.value = ''
FinallyInputValue == <<>>

(***************************************************************************)
(* Mount.                                                                  *)
(***************************************************************************)
\* the two mount effects in the other order: the persist effect first
MountEffectsPersistFirst ==
  /\ pc = "mount"
  /\ imageSlot' = PersistEffect(images)
  /\ LET parsed == JSONparse(imageSlot')
         savedTheme == themeSlot
     IN /\ pending' = IF parsed.ok THEN parsed ELSE NoPending
        /\ pendingDark' = (savedTheme = "dark")
        /\ rootDark' = (rootDark \/ savedTheme = "dark")
        /\ pc' = IF parsed.ok \/ savedTheme = "dark" THEN "hydrating" ELSE "ready"
  /\ ev' = MountEvent("effects")
  /\ UNCHANGED << images, imagesTag, searchTerm, uploading, showDeleteConfirm,
                  filteredImages, inputValue, batches, now, isDarkMode, themeSlot >>

\* The effects of the first commit, in order: the hydrate effect reads the
\* image slot and, when it holds a non-empty text that parses, queues
\* setImages(parsed); it reads the theme slot and, when it holds 'dark',
\* queues setIsDarkMode(true) and adds the class 'dark' to the root element;
\* the persist effect then stores the images of the first render, the empty
\* array.
MountEffects ==
  /\ pc = "mount"
  /\ LET savedImages == imageSlot
         truthy == savedImages.tag \notin {"unset", "empty"}
         parsed == JSONparse(savedImages)
         savedTheme == themeSlot
     IN /\ pending' = IF truthy /\ parsed.ok THEN parsed ELSE NoPending
        /\ pendingDark' = (savedTheme = "dark")
        /\ rootDark' = (rootDark \/ savedTheme = "dark")
        /\ pc' = IF (truthy /\ parsed.ok) \/ savedTheme = "dark"
                 THEN "hydrating" ELSE "ready"
  /\ imageSlot' = PersistEffect(images)
  /\ ev' = MountEvent("effects")
  /\ UNCHANGED << images, imagesTag, searchTerm, uploading, showDeleteConfirm,
                  filteredImages, inputValue, batches, now, isDarkMode, themeSlot >>

\* The render that the state updates of the hydrate effect cause, both in one
\* batch.  When setImages was given a value that is not an array,
\* images.filter throws and the component is gone; otherwise the list is
\* derived and, when the images changed, the persist effect stores the
\* hydrated collection.
HydrateRender ==
  /\ pc = "hydrating"
  /\ isDarkMode' = (isDarkMode \/ pendingDark)
  /\ pendingDark' = FALSE
  /\ pending' = NoPending
  /\ IF ~pending.ok
     THEN /\ pc' = "ready"
          /\ ev' = MountEvent("hydrated")
          /\ UNCHANGED << images, imagesTag, filteredImages, imageSlot >>
     ELSE /\ imagesTag' = pending.tag
          /\ images' = IF pending.tag = "arr" THEN pending.items ELSE <<>>
          /\ IF pending.tag = "arr"
             THEN /\ filteredImages' = FilterImages(images', searchTerm)
                  /\ imageSlot' = PersistEffect(images')
                  /\ pc' = "ready"
                  /\ ev' = MountEvent("hydrated")
             ELSE /\ pc' = "crashed"
                  /\ ev' = MountEvent("crashed")
                  /\ UNCHANGED << filteredImages, imageSlot >>
  /\ UNCHANGED << searchTerm, uploading, showDeleteConfirm, inputValue, batches, now,
                  rootDark, themeSlot >>

\* The page is closed and opened again: the state of the component, the
\* document and the suspended calls are gone, localStorage and the clock stay.
Restart ==
  /\ pc \in {"ready", "crashed"}
  /\ images' = <<>>
  /\ imagesTag' = "arr"
  /\ searchTerm' = <<>>
  /\ uploading' = FALSE
  /\ showDeleteConfirm' = NoId
  /\ filteredImages' = FilterImages(<<>>, <<>>)
  /\ inputValue' = <<>>
  /\ batches' = <<>>
  /\ pending' = NoPending
  /\ isDarkMode' = FALSE
  /\ rootDark' = FALSE
  /\ pendingDark' = FALSE
  /\ pc' = "mount"
  /\ ev' = [Event("start", <<>>, 0, 0, NoId, imageSlot.tag,
                  IF pc = "ready" THEN "restart" ELSE "reopen", images)
              EXCEPT !.dark = isDarkMode]
  /\ UNCHANGED << imageSlot, themeSlot, now >>

(***************************************************************************)
(* Upload.                                                                 *)
(***************************************************************************)
\* handleFileUpload(files) from its call to its first await, or to its end
\* when no file of the list is read.  `input` is what the file input holds
\* when the call is made.  A suspended call is its file list, the index of
\* the file it is reading and its local newImages; `younger` records, for the
\* properties, which records of the collection were committed by calls
\* submitted after it.
HandleFileUpload(files, input, op) ==
  IF Len(files) = 0
  THEN /\ inputValue' = input
       /\ ev' = UploadEvent(op, files, 0, 0)
       /\ UNCHANGED << images, imagesTag, uploading, filteredImages, batches, imageSlot >>
  ELSE IF NextImageIndex(files, 0) = 0
  THEN /\ images' = CommitImages(images, <<>>)
       /\ imageSlot' = PersistEffect(images')
       /\ filteredImages' = FilterImages(images', searchTerm)
       /\ uploading' = FinallyUploading
       /\ inputValue' = FinallyInputValue
       /\ ev' = UploadEvent("commit", files, 0, 0)
       /\ UNCHANGED << imagesTag, batches >>
  ELSE /\ Len(batches) < MaxBatches
       /\ Len(images) + InFlightImages(batches) + ImageCount(files) <= MaxImages
       /\ batches' = Append(batches, [ slot |-> FreeSlot, files |-> files,
                                       idx |-> NextImageIndex(files, 0),
                                       newImages |-> <<>>, younger |-> {} ])
       /\ uploading' = TRUE
       /\ inputValue' = input
       /\ ev' = UploadEvent(op, files, FreeSlot, 0)
       /\ UNCHANGED << images, imagesTag, filteredImages, imageSlot >>

\* onChange of the file input.  The Choose Files button is rendered only
\* while uploading is false.
PickerChange(files) ==
  /\ pc = "ready"
  /\ ~uploading
  /\ HandleFileUpload(files, files, "picker")
  /\ UNCHANGED << searchTerm, showDeleteConfirm, now, pc, pending >>
  /\ UNCHANGED themeVars

\* handleDrop: the drop zone takes a drop at any time
HandleDrop(files) ==
  /\ pc = "ready"
  /\ HandleFileUpload(files, inputValue, "drop")
  /\ UNCHANGED << searchTerm, showDeleteConfirm, now, pc, pending >>
  /\ UNCHANGED themeVars

\* the suspended calls after call i has committed newImages: the calls
\* submitted before it note the records as committed by a younger call
Overtake(bs, i, newImages) ==
  [ j \in 1..Len(bs) |->
      IF j < i
      THEN [bs[j] EXCEPT !.younger = @ \cup { newImages[k] : k \in 1..Len(newImages) }]
      ELSE bs[j] ]

\* the suspended calls after the records with this id were deleted
Forget(bs, imageId) ==
  [ j \in 1..Len(bs) |->
      [bs[j] EXCEPT !.younger = { img \in @ : img.id # imageId }] ]

\* The read of the file a suspended call waits for succeeds at millisecond t:
\* the record is built and pushed, the loop runs on to the next file that is
\* read, or to its end, where the batch is committed and the finally block runs.
ReadLoad(i, t, r) ==
  /\ pc = "ready"
  /\ i \in 1..Len(batches)
  /\ LET b == batches[i]
         newImages == Append(b.newImages, MakeImageData(b.files[b.idx], t, r))
         next == NextImageIndex(b.files, b.idx)
     IN IF next # 0
        THEN /\ batches' = [batches EXCEPT ![i] = [b EXCEPT !.idx = next,
                                                            !.newImages = newImages]]
             /\ ev' = UploadEvent("read", b.files, b.slot, Len(newImages))
             /\ UNCHANGED << images, filteredImages, imageSlot, uploading, inputValue >>
        ELSE /\ images' = CommitImages(images, newImages)
             /\ imageSlot' = PersistEffect(images')
             /\ filteredImages' = FilterImages(images', searchTerm)
             /\ batches' = RemoveAt(Overtake(batches, i, newImages), i)
             /\ uploading' = FinallyUploading
             /\ inputValue' = FinallyInputValue
             /\ ev' = [UploadEvent("commit", b.files, b.slot, Len(newImages))
                         EXCEPT !.younger = b.younger, !.afterDelete = (ev.op = "delete")]
  /\ now' = t
  /\ UNCHANGED << imagesTag, searchTerm, showDeleteConfirm, pc, pending >>
  /\ UNCHANGED themeVars

\* The read fails: the promise rejects, the catch block logs, the finally
\* block runs, and the records read so far are dropped with the call.
ReadError(i) ==
  /\ pc = "ready"
  /\ i \in 1..Len(batches)
  /\ images' = CatchImages(images, batches[i].newImages)
  /\ imageSlot' = IF images' = images THEN imageSlot ELSE PersistEffect(images')
  /\ filteredImages' = FilterImages(images', searchTerm)
  /\ batches' = RemoveAt(batches, i)
  /\ uploading' = FinallyUploading
  /\ inputValue' = FinallyInputValue
  /\ ev' = UploadEvent("abort", batches[i].files, batches[i].slot,
                       Len(batches[i].newImages))
  /\ UNCHANGED << imagesTag, searchTerm, showDeleteConfirm, now, pc, pending >>
  /\ UNCHANGED themeVars

(***************************************************************************)
(* Search and delete.                                                      *)
(***************************************************************************)
\* onChange of the search box
SetSearchTerm(term) ==
  /\ pc = "ready"
  /\ term # searchTerm
  /\ searchTerm' = term
  /\ filteredImages' = FilterImages(images, searchTerm')
  /\ ev' = UserEvent("search", NoId, 0)
  /\ UNCHANGED << images, imagesTag, uploading, showDeleteConfirm, inputValue,
                  batches, imageSlot, now, pc, pending >>
  /\ UNCHANGED themeVars

\* the delete button of a displayed image: setShowDeleteConfirm(image.id)
RequestDelete(k) ==
  /\ pc = "ready"
  /\ k \in 1..Len(filteredImages)
  /\ showDeleteConfirm' = filteredImages[k].id
  /\ ev' = UserEvent("request", showDeleteConfirm', 0)
  /\ UNCHANGED << images, imagesTag, searchTerm, uploading, filteredImages,
                  inputValue, batches, imageSlot, now, pc, pending >>
  /\ UNCHANGED themeVars

\* Cancel, or a click on the backdrop of the modal: setShowDeleteConfirm(null)
CancelDelete ==
  /\ pc = "ready"
  /\ showDeleteConfirm # NoId
  /\ showDeleteConfirm' = NoId
  /\ ev' = UserEvent("cancel", showDeleteConfirm, 0)
  /\ UNCHANGED << images, imagesTag, searchTerm, uploading, filteredImages,
                  inputValue, batches, imageSlot, now, pc, pending >>
  /\ UNCHANGED themeVars

\* deleteImage(imageId), with the render and the persist effect it causes
DeleteImage(imageId) ==
  /\ images' = FilterOutId(images, imageId)
  /\ showDeleteConfirm' = NoId
  /\ filteredImages' = FilterImages(images', searchTerm)
  /\ imageSlot' = PersistEffect(images')
  /\ batches' = Forget(batches, imageId)
  /\ ev' = UserEvent("delete", imageId, Len(images))
  /\ UNCHANGED << imagesTag, searchTerm, uploading, inputValue, now, pc, pending >>
  /\ UNCHANGED themeVars

\* a Delete button that deletes the first image shown, not the one confirmed
ConfirmDeleteFirstShown ==
  /\ pc = "ready"
  /\ showDeleteConfirm # NoId
  /\ filteredImages # <<>>
  /\ DeleteImage(filteredImages[1].id)

\* the Delete button of the modal: deleteImage(showDeleteConfirm)
ConfirmDelete ==
  /\ pc = "ready"
  /\ showDeleteConfirm # NoId
  /\ DeleteImage(showDeleteConfirm)

(***************************************************************************)
(* Theme.                                                                  *)
(***************************************************************************)
\* a text that names the theme being left
ThemeTextOld(dark) == IF dark THEN "light" ELSE "dark"

\* the text toggleTheme stores for the new theme: !isDarkMode ? 'dark' : 'light'
ThemeText(dark) == IF dark THEN "dark" ELSE "light"

\* toggleTheme, with the render it causes
ToggleTheme ==
  /\ pc = "ready"
  /\ isDarkMode' = ~isDarkMode
  /\ rootDark' = ~rootDark
  /\ themeSlot' = ThemeText(~isDarkMode)
  /\ ev' = UserEvent("toggle", NoId, 0)
  /\ UNCHANGED << images, imagesTag, searchTerm, uploading, showDeleteConfirm,
                  filteredImages, inputValue, batches, imageSlot, now, pc,
                  pending, pendingDark >>

(***************************************************************************)
(* The specification.                                                      *)
(***************************************************************************)
\* the clock at the next record: Date.now() does not go back
Times == { t \in now..(now + 1) : t <= MaxClock }

Next ==
  \/ MountEffects
  \/ HydrateRender
  \/ Restart
  \/ \E files \in FileLists : PickerChange(files)
  \/ \E files \in FileLists : HandleDrop(files)
  \/ \E i \in 1..MaxBatches, t \in Times, r \in RandomSuffixes : ReadLoad(i, t, r)
  \/ \E i \in 1..MaxBatches : ReadError(i)
  \/ \E term \in SearchTerms : SetSearchTerm(term)
  \/ \E k \in 1..MaxImages : RequestDelete(k)
  \/ CancelDelete
  \/ ConfirmDelete
  \/ ToggleTheme

Spec == Init /\ [][Next]_vars

(***************************************************************************)
(* Properties.                                                             *)
(***************************************************************************)
\* the files of a list whose content type starts with "image/", in order
ImageFilesOf(files) == SelectSeq(files, LAMBDA f : StartsWithImage(f.type))

\* short is full without its last extension: full up to its last ".", when
\* something follows that "."; full itself when it has no such "."
IsNameWithoutLastExtension(short, full) ==
  LET dots == { k \in 1..Len(full) : full[k] = "." }
      last == CHOOSE k \in dots : \A m \in dots : m <= k
  IN IF dots = {} \/ last = Len(full)
     THEN short = full
     ELSE short = SubSeq(full, 1, last - 1)

\* C1: when handleFileUpload commits a batch whose reads all succeeded, the
\* collection is the collection just before the commit followed by exactly one
\* new record per file whose content type starts with "image/", in the order
\* of the batch, and none for any other file; each new record carries the
\* file's size and the file's name without its last extension.
C1_CommitAppendsOneRecordPerImage ==
  [][ ev'.op = "commit" =>
        LET picked == ImageFilesOf(ev'.files)
        IN /\ Len(images') = Len(images) + Len(picked)
           /\ SubSeq(images', 1, Len(images)) = images
           /\ \A k \in 1..Len(picked) :
                /\ images'[Len(images) + k].size = picked[k].size
                /\ IsNameWithoutLastExtension(images'[Len(images) + k].name,
                                              picked[k].name) ]_vars

\* a batch of two image files has been committed after an earlier record
C1_Witness ==
  /\ ev.op = "commit"
  /\ Len(ev.files) = 2
  /\ Len(ImageFilesOf(ev.files)) = 2
  /\ ev.files[1] # ev.files[2]
  /\ Len(images) = 3

\* C2: when the read of a file of a batch fails the batch is aborted: the
\* collection and the image slot are left as they were, the call is gone
\* with the records it had built (so none of them is added later), and the
\* collection only ever grows by the commit of a batch all of whose files
\* were read, or by hydration at a mount.
C2_FailedReadAbortsWholeBatch ==
  [][ /\ ev'.op = "abort" =>
           /\ images' = images
           /\ imageSlot' = imageSlot
           /\ Len(batches') = Len(batches) - 1
           /\ \A i \in 1..Len(batches') : batches'[i].slot # ev'.slot
      /\ (\E k \in 1..Len(images') : \A j \in 1..Len(images) : images'[k] # images[j])
           => \/ ev'.op = "hydrated"
              \/ ev'.op = "commit" /\ ev'.n = ImageCount(ev'.files) ]_vars

\* a batch was aborted by a failed read after one of its files had been read,
\* with records committed before it
C2_Witness ==
  /\ ev.op = "abort"
  /\ ev.n = 1
  /\ Len(images) >= 1

\* C3: in every reachable state, if a batch still has a file read outstanding
\* then the uploading flag is true.
C3_OutstandingReadImpliesUploading ==
  batches # <<>> => uploading

\* the suspended call named s is in flight
InFlight(s) == \E i \in 1..Len(batches) : batches[i].slot = s

\* the read the suspended call named s waits for completes, with either outcome
ReadSettles(s) ==
  \E i \in 1..MaxBatches :
     /\ i <= Len(batches)
     /\ batches[i].slot = s
     /\ \/ \E t \in Times, r \in RandomSuffixes : ReadLoad(i, t, r)
        \/ ReadError(i)

\* every read that was started completes: FileReader fires load or error
\* The upload machinery alone.  The search box, the delete dialog and the
\* theme button leave uploading and the file input as they are and neither
\* start nor end a call, and are left out; the page is first opened with no
\* theme stored.
LiveInit ==
  /\ Init
  /\ themeSlot = NoTheme

LiveNext ==
  \/ MountEffects
  \/ HydrateRender
  \/ Restart
  \/ \E files \in FileLists : PickerChange(files)
  \/ \E files \in FileLists : HandleDrop(files)
  \/ \E s \in 1..MaxBatches : ReadSettles(s)

LiveSpec == LiveInit /\ [][LiveNext]_vars /\ \A s \in 1..MaxBatches : WF_vars(ReadSettles(s))

\* C4: every batch that sets the uploading flag resolves, provided each read
\* that was started completes, and at the step that resolves it, by commit or
\* by abort, the uploading flag is cleared and the file input is reset.
C4_BatchResolvesAndClears ==
  /\ [][ ev'.op \in {"commit", "abort"} =>
           /\ uploading' = FALSE
           /\ inputValue' = <<>> ]_vars
  /\ \A s \in 1..MaxBatches :
       InFlight(s) ~> \/ ev.op \in {"commit", "abort"} /\ ev.slot = s
                      \/ pc = "mount"

\* a batch picked with the file input was aborted by a failed read
C4_Witness ==
  /\ ev.op = "abort"
  /\ ev.slot # 0
  /\ ~uploading
  /\ inputValue = <<>>
  /\ batches # <<>>

\* every id the model can build
KnownIds == { <<t, r>> : t \in 0..MaxClock, r \in RandomSuffixes }

\* deleteImage called with any id, whether or not a record has it
CallDeleteImage(imageId) ==
  /\ pc = "ready"
  /\ DeleteImage(imageId)

DeleteNext ==
  \/ Next
  \/ \E imageId \in KnownIds : CallDeleteImage(imageId)

DeleteSpec == Init /\ [][DeleteNext]_vars

\* the positions of a collection whose record has the id
PositionsOf(imgs, imageId) == { k \in 1..Len(imgs) : imgs[k].id = imageId }

\* C5: deleteImage(id) removes from the collection exactly the records whose
\* id is id and leaves every other record, and their relative order, as they
\* were; when no record has the id the collection is the same after the call.
C5_DeleteRemovesExactlyTheId ==
  [][ ev'.op = "delete" =>
        LET hits == PositionsOf(images, ev'.id)
            kept == (1..Len(images)) \ hits
            nth(j) == CHOOSE p \in kept : Cardinality({ q \in kept : q <= p }) = j
        IN /\ Len(images') = Cardinality(kept)
           /\ \A j \in 1..Len(images') : images'[j] = images[nth(j)]
           /\ hits = {} => images' = images
           /\ PositionsOf(images', ev'.id) = {} ]_vars

\* a delete took one record out of a collection of three
C5_Witness ==
  /\ ev.op = "delete"
  /\ ev.n = 3
  /\ Len(images) = 2

\* a delete with an id no record has, on a collection of three
C5_WitnessNoMatch ==
  /\ ev.op = "delete"
  /\ ev.n = 3
  /\ Len(images) = 3

\* two characters are the same letter, whatever their case
SameLetter(a, b) == a = b \/ {a, b} \in { {"a", "A"}, {"b", "B"} }

\* name contains term, ignoring case
ContainsIgnoringCase(name, term) ==
  \E off \in 0..(Len(name) - Len(term)) :
     \A k \in 1..Len(term) : SameLetter(name[off + k], term[k])

\* C6: the displayed list is the subsequence of the collection, in collection
\* order, of the records whose name contains the search term ignoring case:
\* the whole collection for the empty term, empty for a term no name contains.
\* It is the list of the current collection and the current term in every
\* state, so after every commit, delete and change of the term.
C6_FilteredIsMatchingSubsequence ==
  imagesTag = "arr" =>
    /\ filteredImages =
         SelectSeq(images, LAMBDA img : ContainsIgnoringCase(img.name, searchTerm))
    /\ searchTerm = <<>> => filteredImages = images
    /\ (\A k \in 1..Len(images) : ~ContainsIgnoringCase(images[k].name, searchTerm))
         => filteredImages = <<>>

\* with a term typed, the list shows some but not all of three records
C6_Witness ==
  /\ searchTerm # <<>>
  /\ Len(images) = 3
  /\ Len(filteredImages) \in {1, 2}

\* C7: at startup, for every content of the image slot that is unset or is
\* not a readable serialized sequence of records, the hydrated collection is
\* the empty sequence and nothing raises an error.
C7_UnreadableSlotHydratesEmpty ==
  (ev.op \in {"effects", "hydrated", "crashed"} /\ ev.boot # "arr") =>
    /\ pc # "crashed"
    /\ imagesTag = "arr"
    /\ pc = "ready" => images = <<>>

\* C8: once a mutation of the collection and its persist effect are done the
\* image slot holds the serialization of the whole collection in memory.
C8_SlotHoldsWholeCollection ==
  pc = "ready" =>
    /\ imageSlot.tag = "arr"
    /\ Len(imageSlot.items) = Len(images)
    /\ \A k \in 1..Len(images) :
         imageSlot.items[k] = << images[k].id, images[k].name, images[k].src,
                                 images[k].size, images[k].uploadDate >>

\* a delete left two records, and the slot holds two
C8_Witness ==
  /\ ev.op = "delete"
  /\ Len(images) = 2
  /\ Len(imageSlot.items) = 2

\* C9: a restart of a running session hydrates a collection with the same
\* records in the same order as the collection the session held.
C9_RestartRestoresCollection ==
  ev.from = "restart" =>
    /\ pc # "crashed"
    /\ pc = "ready" => imagesTag = "arr" /\ images = ev.prev

\* a session that held three records was restarted and has hydrated
C9_Witness ==
  /\ ev.from = "restart"
  /\ ev.op = "hydrated"
  /\ Len(ev.prev) = 3
  /\ pc = "ready"

\* C10: a partial batch is never visible: no step of a batch before its
\* commit (its start, a read that completes, its abort) changes the
\* collection or the image slot, and the commit adds all the records of the
\* batch in one update, made when every file of the batch has been read.
C10_NoPartialBatchVisible ==
  [][ /\ ev'.op \in {"picker", "drop", "read", "abort"} =>
           /\ images' = images
           /\ imageSlot' = imageSlot
      /\ ev'.op = "commit" =>
           /\ ev'.n = ImageCount(ev'.files)
           /\ Len(images') = Len(images) + ImageCount(ev'.files)
      /\ \A i \in 1..Len(batches') :
           Len(batches'[i].newImages) < ImageCount(batches'[i].files) ]_vars

\* the first of two reads of a batch has completed, beside a collection that
\* holds a record
C10_Witness ==
  /\ ev.op = "read"
  /\ ev.n = 1
  /\ Len(images) >= 1
  /\ \E i \in 1..Len(batches) : Len(batches[i].newImages) = 1

\* C11: deleteImage runs with id X only when the pending confirmation is X,
\* and the confirmation is X only by a delete-request for X that has not been
\* cancelled since; a cancel deletes nothing; after deleteImage the pending
\* confirmation is cleared; records leave the collection of a session only
\* by deleteImage.
C11_DeleteOnlyAfterConfirmation ==
  [][ /\ ev'.op = "delete" =>
           /\ showDeleteConfirm # NoId
           /\ ev'.id = showDeleteConfirm
           /\ showDeleteConfirm' = NoId
      /\ ev'.op = "cancel" =>
           /\ images' = images
           /\ imageSlot' = imageSlot
           /\ showDeleteConfirm' = NoId
      /\ (showDeleteConfirm' # NoId /\ showDeleteConfirm' # showDeleteConfirm) =>
           /\ ev'.op = "request"
           /\ ev'.id = showDeleteConfirm'
           /\ \E k \in 1..Len(images) : images[k].id = showDeleteConfirm'
      /\ (\E k \in 1..Len(images) : \A j \in 1..Len(images') : images'[j] # images[k]) =>
           ev'.op \in {"delete", "start"} ]_vars

\* the record whose deletion was requested and confirmed has been deleted
C11_Witness ==
  /\ ev.op = "delete"
  /\ ev.id # NoId
  /\ Len(images) = ev.n - 1
  /\ Len(images) >= 1
  /\ showDeleteConfirm = NoId

\* the elements of seq at the positions S, in order
Pick(seq, S) ==
  LET F[k \in 0..Len(seq)] ==
        IF k = 0 THEN <<>>
        ELSE IF k \in S THEN Append(F[k - 1], seq[k]) ELSE F[k - 1]
  IN F[Len(seq)]

\* C12: within a session the collection only grows at its end and shrinks by
\* deletion.  Every step either leaves it as it is, or (a deleteImage) leaves
\* some of its records, unchanged and in the same order, or (a commit, or the
\* hydration of a mount) leaves every record where it is, unchanged, and puts
\* new records after them; the records a commit adds are the ones the
\* committing call built from its own files since it was submitted, so no
\* step puts back a record that was deleted.
C12_AppendOnlyInOrder ==
  [][ ev'.op # "start" =>
        \/ images' = images
        \/ /\ ev'.op = "delete"
           /\ \E S \in SUBSET (1..Len(images)) : images' = Pick(images, S)
        \/ /\ ev'.op \in {"commit", "hydrated"}
           /\ Len(images') > Len(images)
           /\ SubSeq(images', 1, Len(images)) = images
           /\ ev'.op = "hydrated" => images = <<>>
           /\ ev'.op = "commit" =>
                \E i \in 1..Len(batches) :
                  LET added == SubSeq(images', Len(images) + 1, Len(images'))
                      files == ImageFilesOf(batches[i].files)
                  IN /\ batches[i].slot = ev'.slot
                     /\ Len(added) = Len(files)
                     /\ SubSeq(added, 1, Len(added) - 1) = batches[i].newImages
                     /\ \A k \in 1..Len(added) :
                          added[k].src = FileToBase64(files[k]) ]_vars

\* a commit has put its records after the records that were already there
C12_Witness ==
  /\ ev.op = "commit"
  /\ ev.n = 1
  /\ Len(images) = 3
  /\ images[1].id # images[3].id
  /\ images[2].id # images[3].id

\* C13: the order of the collection is the order of submission.  When a call
\* commits its records, no record committed by a call that was submitted
\* after it stands before them in the collection.
C13_CommitsInSubmissionOrder ==
  (ev.op = "commit" /\ ev.n >= 1) =>
    \A k \in 1..(Len(images) - ev.n) : images[k] \notin ev.younger

\* C14: no two records of the collection have the same id.
C14_IdsAreUnique ==
  \A j, k \in 1..Len(images) : images[j].id = images[k].id => j = k

\* C15: a picker change or a drop that carries no file changes nothing: the
\* uploading flag, the collection, the displayed list, the suspended calls and
\* both storage slots stay as they are.  A batch with files none of which is
\* an image ends in the step that began it, with uploading false, and leaves
\* the collection and both storage slots as they are.
C15_NoFileNoImageChangesNothing ==
  [][ /\ (ev'.op \in {"picker", "drop"} /\ ev'.files = <<>>) =>
           /\ uploading' = uploading
           /\ images' = images
           /\ filteredImages' = filteredImages
           /\ batches' = batches
           /\ imageSlot' = imageSlot
           /\ themeSlot' = themeSlot
      /\ (ev'.op = "commit" /\ ImageCount(ev'.files) = 0) =>
           /\ ev'.files # <<>>
           /\ uploading' = FALSE
           /\ images' = images
           /\ filteredImages' = filteredImages
           /\ batches' = batches
           /\ imageSlot' = imageSlot
           /\ themeSlot' = themeSlot ]_vars

\* a batch of files that are not images has ended, with records in the collection
C15_Witness ==
  /\ ev.op = "commit"
  /\ ev.files # <<>>
  /\ ImageCount(ev.files) = 0
  /\ images # <<>>
  /\ ~uploading

\* C16: a commit appends to the collection as it is when the call commits.
\* In a commit step every record of the collection stays where it is,
\* unchanged, the records of the committing call follow them, nothing else is
\* added or dropped, and the image slot holds the result; so what was deleted
\* while the call was suspended is not brought back, and the records that
\* calls submitted later have committed in the meantime are all still there.
C16_CommitKeepsConcurrentMutations ==
  [][ ev'.op = "commit" =>
        /\ Len(images') = Len(images) + ev'.n
        /\ SubSeq(images', 1, Len(images)) = images
        /\ imageSlot' = JSONstringify(images')
        /\ \A img \in ev'.younger :
             \E k \in 1..Len(images) : images'[k] = img
        /\ \A i \in 1..Len(batches) :
             batches[i].slot = ev'.slot =>
               SubSeq(images', Len(images) + 1, Len(images') - 1) = batches[i].newImages ]_vars

\* a call has committed right after a record was deleted, and after another
\* call committed, both while it was suspended
C16_Witness ==
  /\ ev.op = "commit"
  /\ ev.n >= 1
  /\ ev.afterDelete
  /\ ev.younger # {}
  /\ Len(images) > ev.n

\* C17: startup does not change what the image slot holds.  When a session
\* starts with a collection in the slot (the one the session before ended
\* with, or the array found at the first opening), then from the start until
\* the first event after the mount the slot holds that collection, and once
\* the mount is over the collection in memory is that collection.
C17_StartupKeepsSlot ==
  LET atStart == IF ev.from = "restart" THEN ev.prev
                 ELSE JSONparse(SlotText("arr")).items
  IN ( /\ ev.op \in {"open", "start", "effects", "hydrated"}
       /\ \/ ev.from = "restart"
          \/ ev.from = "open" /\ ev.boot = "arr" ) =>
       /\ JSONparse(imageSlot).ok
       /\ JSONparse(imageSlot).tag = "arr"
       /\ JSONparse(imageSlot).items = atStart
       /\ pc = "ready" => images = atStart

\* C18: in a running session, after the mount and after any number of
\* toggles, isDarkMode is true exactly when the root element has the class
\* 'dark' and exactly when the theme slot holds "dark"; a toggleTheme flips
\* all three and leaves the collection, the displayed list and the image slot
\* as they are; after a restart the session has the theme the session before
\* ended with.
C18_ThemeConsistent ==
  /\ [](pc = "ready" =>
          /\ isDarkMode <=> rootDark
          /\ isDarkMode <=> (themeSlot = "dark"))
  /\ [][ ev'.op = "toggle" =>
           /\ isDarkMode' = ~isDarkMode
           /\ rootDark' = ~rootDark
           /\ (themeSlot' = "dark") = ~(themeSlot = "dark")
           /\ themeSlot' \in {"dark", "light"}
           /\ images' = images
           /\ filteredImages' = filteredImages
           /\ imageSlot' = imageSlot ]_vars
  /\ []((ev.from = "restart" /\ ev.op \in {"effects", "hydrated"} /\ pc = "ready") =>
          isDarkMode = ev.dark)

\* the theme was toggled back to light with records in the collection
C18_Witness ==
  /\ ev.op = "toggle"
  /\ ~isDarkMode
  /\ ~rootDark
  /\ themeSlot = "light"
  /\ images # <<>>

====
